---- MODULE Spec2Model ----
(***************************************************************************)
(* geohash-hilbert: encoding of lng/lat coordinates as geohashes on a      *)
(* Hilbert curve (geohash_hilbert/_hilbert.py).                            *)
(*                                                                         *)
(* The library is a set of pure functions.  Each function is an operator   *)
(* computed the way the source computes it, and each call of a function is *)
(* one action that records the function called, its arguments and what it *)
(* returned (a value, or the AssertionError raised by a failed assert).    *)
(*                                                                         *)
(* Numbers.  Grid coordinates, curve indices and levels are Python ints    *)
(* (unbounded, two's complement for the bit operators).  Coordinates and   *)
(* error margins are floats in the source; here a coordinate is an integer *)
(* count of 1/Scale degrees, Scale = 2^MaxLevel.  Every coordinate of the  *)
(* model is a double, and on these values each float operation of the      *)
(* source is exact or is followed by a floor that its rounding cannot      *)
(* move, so the fixed-point results are the source's results.              *)
(*                                                                         *)
(* Strings.  A geohash is a sequence of characters; a character is         *)
(* represented by its digit value in the codec's alphabet, 0 .. 2^b - 1,   *)
(* and the character '0' is the digit 0.                                   *)
(***************************************************************************)
EXTENDS Integers, Sequences, FiniteSets, TLC

VARIABLES op, args, result

vars == <<op, args, result>>

(***************************************************************************)
(* Bounds of the model.                                                    *)
(***************************************************************************)
\* the highest level of the Hilbert curve: precision * bits_per_char <= 2 * MaxLevel
MaxLevel == 6

\* units per degree of the fixed-point coordinates
Scale == 2 ^ MaxLevel

Deg(d) == d * Scale

\* _LAT_INTERVAL and _LNG_INTERVAL
LAT_INTERVAL == << Deg(-90), Deg(90) >>
LNG_INTERVAL == << Deg(-180), Deg(180) >>

ValidBits == {2, 4, 6}

(***************************************************************************)
(* Python's int operators.                                                 *)
(***************************************************************************)
\* (v & lvl) > 0 for lvl a power of two; v may be negative (two's complement)
BitSet(v, lvl) == (v \div lvl) % 2 = 1

\* a ^ b for ints a, b >= 0
RECURSIVE Xor(_, _)
Xor(a, b) ==
    IF a = 0 THEN b
    ELSE IF b = 0 THEN a
    ELSE 2 * Xor(a \div 2, b \div 2) + (((a % 2) + (b % 2)) % 2)

(***************************************************************************)
(* The integer/string codec (geohash_hilbert/_int2str.py).                 *)
(***************************************************************************)
\* encode_int: the shortest digit string of n, most significant digit first
RECURSIVE encode_int(_, _)
encode_int(n, bits_per_char) ==
    IF n = 0 THEN << >>
    ELSE Append(encode_int(n \div (2 ^ bits_per_char), bits_per_char),
                n % (2 ^ bits_per_char))

\* decode_int: each character contributes bits_per_char bits, most significant first
RECURSIVE decode_int(_, _)
decode_int(code, bits_per_char) ==
    IF code = << >> THEN 0
    ELSE decode_int(SubSeq(code, 1, Len(code) - 1), bits_per_char) * (2 ^ bits_per_char)
         + code[Len(code)]

\* str.rjust(width, '0')
RECURSIVE rjust(_, _)
rjust(s, width) ==
    IF Len(s) >= width THEN s ELSE rjust(<<0>> \o s, width)

(***************************************************************************)
(* The Hilbert curve transform.                                            *)
(***************************************************************************)
\* rotate without the reflection of the rx = 1 quadrant
rotate_no_flip(n, x, y, rx, ry) ==
    IF ry = 0 THEN << y, x >> ELSE << x, y >>

rotate(n, x, y, rx, ry) ==
    IF ry = 0
    THEN IF rx = 1
         THEN << n - 1 - y, n - 1 - x >>
         ELSE << y, x >>
    ELSE << x, y >>

\* the loop of _xy2hash with the digit weighted by lvl instead of lvl * lvl
RECURSIVE xy2hash_loop_linear(_, _, _, _)
xy2hash_loop_linear(d, lvl, x, y) ==
    IF lvl > 0
    THEN LET rx == IF BitSet(x, lvl) THEN 1 ELSE 0
             ry == IF BitSet(y, lvl) THEN 1 ELSE 0
             xy == rotate(lvl, x, y, rx, ry)
         IN  xy2hash_loop_linear(d + lvl * Xor(3 * rx, ry), lvl \div 2, xy[1], xy[2])
    ELSE d

\* the while loop of _xy2hash
RECURSIVE xy2hash_loop(_, _, _, _)
xy2hash_loop(d, lvl, x, y) ==
    IF lvl > 0
    THEN LET rx == IF BitSet(x, lvl) THEN 1 ELSE 0
             ry == IF BitSet(y, lvl) THEN 1 ELSE 0
             xy == rotate(lvl, x, y, rx, ry)
         IN  xy2hash_loop(d + lvl * lvl * Xor(3 * rx, ry), lvl \div 2, xy[1], xy[2])
    ELSE d

xy2hash(x, y, dim) == xy2hash_loop(0, dim \div 2, x, y)

\* the loop of _hash2xy with ry taken from the index alone, not from index ^ rx
RECURSIVE hash2xy_loop_no_xor(_, _, _, _, _)
hash2xy_loop_no_xor(hashcode, dim, lvl, x, y) ==
    IF lvl < dim
    THEN LET rx == (hashcode \div 2) % 2
             ry == hashcode % 2
             xy == rotate(lvl, x, y, rx, ry)
         IN  hash2xy_loop_no_xor(hashcode \div 4, dim, lvl * 2,
                                 xy[1] + lvl * rx, xy[2] + lvl * ry)
    ELSE << x, y >>

\* the while loop of _hash2xy
RECURSIVE hash2xy_loop(_, _, _, _, _)
hash2xy_loop(hashcode, dim, lvl, x, y) ==
    IF lvl < dim
    THEN LET rx == (hashcode \div 2) % 2
             ry == Xor(hashcode, rx) % 2
             xy == rotate(lvl, x, y, rx, ry)
         IN  hash2xy_loop(hashcode \div 4, dim, lvl * 2,
                          xy[1] + lvl * rx, xy[2] + lvl * ry)
    ELSE << x, y >>

hash2xy(hashcode, dim) ==
    IF hashcode <= dim * dim - 1
    THEN [status |-> "ok", xy |-> hash2xy_loop(hashcode, dim, 1, 0, 0)]
    ELSE [status |-> "AssertionError"]

(***************************************************************************)
(* The grid quantizer and the error margin.                                *)
(***************************************************************************)
\* _dim_error with the error of the next level
dim_error_half(level) ==
    << (180 * Scale) \div (2 ^ (level + 1)), (90 * Scale) \div (2 ^ (level + 1)) >>

\* _dim_error with the width of the cell instead of half of it
dim_error_full(level) ==
    << (360 * Scale) \div (2 ^ level), (180 * Scale) \div (2 ^ level) >>

dim_error(level) ==
    << (180 * Scale) \div (2 ^ level), (90 * Scale) \div (2 ^ level) >>

\* _coord2int with the latitude offset added to the longitude
coord2int_lat_offset(lng, lat, dim) ==
    IF dim >= 1
    THEN LET lat_y == ((lat + LAT_INTERVAL[2]) * dim) \div (180 * Scale)
             lng_x == ((lng + LAT_INTERVAL[2]) * dim) \div (360 * Scale)
         IN  [status |-> "ok", xy |-> << lng_x, lat_y >>]
    ELSE [status |-> "AssertionError"]

coord2int(lng, lat, dim) ==
    IF dim >= 1
    THEN LET lat_y == ((lat + LAT_INTERVAL[2]) * dim) \div (180 * Scale)
             lng_x == ((lng + LNG_INTERVAL[2]) * dim) \div (360 * Scale)
         IN  [status |-> "ok", xy |-> << lng_x, lat_y >>]
    ELSE [status |-> "AssertionError"]

int2coord(x, y, dim) ==
    IF dim >= 1 /\ x < dim /\ y < dim
    THEN [status |-> "ok",
          lnglat |-> << (x * 360 * Scale) \div dim - 180 * Scale,
                        (y * 180 * Scale) \div dim - 90 * Scale >>]
    ELSE [status |-> "AssertionError"]

(***************************************************************************)
(* The public functions.  calls lists, in order, the functions the call    *)
(* went through after its own asserts.                                     *)
(***************************************************************************)
\* encode without the assert on the latitude
encode_no_lat_check(lng, lat, precision, bits_per_char) ==
    IF /\ LNG_INTERVAL[1] <= lng /\ lng <= LNG_INTERVAL[2]
       /\ precision >= 0
       /\ bits_per_char \in ValidBits
    THEN LET bits  == precision * bits_per_char
             level == bits \div 2
             dim   == 2 ^ level
             c     == coord2int(lng, lat, dim)
         IN  [status |-> "ok",
              code   |-> rjust(encode_int(xy2hash(c.xy[1], c.xy[2], dim), bits_per_char),
                               precision),
              calls  |-> << "_coord2int", "_xy2hash", "encode_int" >>]
    ELSE [status |-> "AssertionError", calls |-> << >>]

\* encode without the padding of the codec's output
encode_no_pad(lng, lat, precision, bits_per_char) ==
    IF /\ LNG_INTERVAL[1] <= lng /\ lng <= LNG_INTERVAL[2]
       /\ LAT_INTERVAL[1] <= lat /\ lat <= LAT_INTERVAL[2]
       /\ precision >= 0
       /\ bits_per_char \in ValidBits
    THEN LET bits  == precision * bits_per_char
             level == bits \div 2
             dim   == 2 ^ level
             c     == coord2int(lng, lat, dim)
         IN  [status |-> "ok",
              code   |-> encode_int(xy2hash(c.xy[1], c.xy[2], dim), bits_per_char),
              calls  |-> << "_coord2int", "_xy2hash", "encode_int" >>]
    ELSE [status |-> "AssertionError", calls |-> << >>]

encode(lng, lat, precision, bits_per_char) ==
    IF /\ LNG_INTERVAL[1] <= lng /\ lng <= LNG_INTERVAL[2]
       /\ LAT_INTERVAL[1] <= lat /\ lat <= LAT_INTERVAL[2]
       /\ precision >= 0
       /\ bits_per_char \in ValidBits
    THEN LET bits  == precision * bits_per_char
             level == bits \div 2
             dim   == 2 ^ level
             c     == coord2int(lng, lat, dim)
         IN  [status |-> "ok",
              code   |-> rjust(encode_int(xy2hash(c.xy[1], c.xy[2], dim), bits_per_char),
                               precision),
              calls  |-> << "_coord2int", "_xy2hash", "encode_int" >>]
    ELSE [status |-> "AssertionError", calls |-> << >>]

decode_exactly(code, bits_per_char) ==
    IF bits_per_char \in ValidBits
    THEN LET bits  == Len(code) * bits_per_char
             level == bits \div 2
             dim   == 2 ^ level
             h     == hash2xy(decode_int(code, bits_per_char), dim)
         IN  IF h.status # "ok"
             THEN [status |-> "AssertionError", calls |-> << "decode_int", "_hash2xy" >>]
             ELSE LET c == int2coord(h.xy[1], h.xy[2], dim)
                      e == dim_error(level)
                  IN  IF c.status # "ok"
                      THEN [status |-> "AssertionError",
                            calls  |-> << "decode_int", "_hash2xy", "_int2coord" >>]
                      ELSE [status |-> "ok",
                            value  |-> << c.lnglat[1] + e[1], c.lnglat[2] + e[2], e[1], e[2] >>,
                            calls  |-> << "decode_int", "_hash2xy", "_int2coord", "_dim_error" >>]
    ELSE [status |-> "AssertionError", calls |-> << >>]

decode(code, bits_per_char) ==
    IF bits_per_char \in ValidBits
    THEN LET r == decode_exactly(code, bits_per_char)
         IN  IF r.status # "ok"
             THEN [status |-> "AssertionError", calls |-> << "decode_exactly" >> \o r.calls]
             ELSE [status |-> "ok",
                   value  |-> << r.value[1], r.value[2] >>,
                   calls  |-> << "decode_exactly" >> \o r.calls]
    ELSE [status |-> "AssertionError", calls |-> << >>]

(***************************************************************************)
(* The arguments the calls are made with.                                  *)
(***************************************************************************)
Levels == 0 .. MaxLevel

Dims == { 2 ^ l : l \in Levels }

\* the bits_per_char a caller may pass: 2, 4, 6 and the values around them
BitsInputs == 1 .. 7

\* the precisions with a curve level within MaxLevel, and -1
PrecisionInputs(b) ==
    IF b \in ValidBits THEN -1 .. ((2 * MaxLevel) \div b) ELSE -1 .. 1

\* every 45 degrees of longitude and of latitude, the values one unit below and
\* above them, and one degree beyond each end of the interval
Offsets == {-1, 0, 1}

LngInputs ==
    { Deg(-181), Deg(181) } \cup
    { v \in { Deg(45 * k) + o : k \in -4 .. 4, o \in Offsets } :
        LNG_INTERVAL[1] <= v /\ v <= LNG_INTERVAL[2] }

LatInputs ==
    { Deg(-91), Deg(91) } \cup
    { v \in { Deg(45 * k) + o : k \in -2 .. 2, o \in Offsets } :
        LAT_INTERVAL[1] <= v /\ v <= LAT_INTERVAL[2] }

\* the strings of n characters of the alphabet of bits_per_char b
Codes(n, b) == [ 1 .. n -> 0 .. (2 ^ b - 1) ]

CodeLengths(b) ==
    IF b \in ValidBits THEN 0 .. ((2 * MaxLevel) \div b) ELSE 0 .. 1

(***************************************************************************)
(* The calls.  No call leaves anything behind for the next one (no shared  *)
(* state, no cache), so a behaviour is one call made from the idle state.  *)
(***************************************************************************)
Init ==
    /\ op = "none"
    /\ args = << >>
    /\ result = [status |-> "none"]

Encode ==
    /\ op = "none"
    /\ \E lng \in LngInputs, lat \in LatInputs, b \in BitsInputs :
            \E precision \in PrecisionInputs(b) :
                /\ op' = "encode"
                /\ args' = [lng |-> lng, lat |-> lat, precision |-> precision,
                            bits_per_char |-> b]
                /\ result' = encode(lng, lat, precision, b)

Decode ==
    /\ op = "none"
    /\ \E b \in BitsInputs :
            \E n \in CodeLengths(b) :
                \E code \in Codes(n, IF b \in ValidBits THEN b ELSE 2) :
                    /\ op' = "decode"
                    /\ args' = [code |-> code, bits_per_char |-> b]
                    /\ result' = decode(code, b)

DecodeExactly ==
    /\ op = "none"
    /\ \E b \in BitsInputs :
            \E n \in CodeLengths(b) :
                \E code \in Codes(n, IF b \in ValidBits THEN b ELSE 2) :
                    /\ op' = "decode_exactly"
                    /\ args' = [code |-> code, bits_per_char |-> b]
                    /\ result' = decode_exactly(code, b)

DimError ==
    /\ op = "none"
    /\ \E level \in Levels :
            /\ op' = "_dim_error"
            /\ args' = [level |-> level]
            /\ result' = [status |-> "ok", value |-> dim_error(level)]

Coord2Int ==
    /\ op = "none"
    /\ \E lng \in LngInputs, lat \in LatInputs, dim \in Dims \cup {0} :
            /\ op' = "_coord2int"
            /\ args' = [lng |-> lng, lat |-> lat, dim |-> dim]
            /\ result' = coord2int(lng, lat, dim)

Int2Coord ==
    /\ op = "none"
    /\ \E dim \in Dims \cup {0} :
            \E x \in 0 .. dim, y \in 0 .. dim :
                /\ op' = "_int2coord"
                /\ args' = [x |-> x, y |-> y, dim |-> dim]
                /\ result' = int2coord(x, y, dim)

Xy2Hash ==
    /\ op = "none"
    /\ \E dim \in Dims :
            \E x \in 0 .. dim, y \in 0 .. dim :
                /\ op' = "_xy2hash"
                /\ args' = [x |-> x, y |-> y, dim |-> dim]
                /\ result' = [status |-> "ok", value |-> xy2hash(x, y, dim)]

Hash2Xy ==
    /\ op = "none"
    /\ \E dim \in Dims :
            \E hashcode \in 0 .. dim * dim :
                /\ op' = "_hash2xy"
                /\ args' = [hashcode |-> hashcode, dim |-> dim]
                /\ result' = hash2xy(hashcode, dim)

Next ==
    \/ Encode
    \/ Decode
    \/ DecodeExactly
    \/ DimError
    \/ Coord2Int
    \/ Int2Coord
    \/ Xy2Hash
    \/ Hash2Xy

Spec == Init /\ [][Next]_vars

(***************************************************************************)
(* Helpers of the properties.                                              *)
(***************************************************************************)
Abs(v) == IF v < 0 THEN -v ELSE v

LevelOf(precision, bits_per_char) == (precision * bits_per_char) \div 2

EncodeOk == op = "encode" /\ result.status = "ok"

\* the curve index encode hands to encode_int in the current encode call
EncodeIndex ==
    LET dim == 2 ^ LevelOf(args.precision, args.bits_per_char)
        c   == coord2int(args.lng, args.lat, dim)
    IN  xy2hash(c.xy[1], c.xy[2], dim)

(***************************************************************************)
(* C1: for every dim = 2^level, _xy2hash and _hash2xy are mutually inverse *)
(* bijections between the cells 0 <= x, y < dim and the indices            *)
(* 0 <= index < dim^2: _hash2xy(_xy2hash(x, y, dim), dim) = (x, y) with    *)
(* the index in range, and _xy2hash(_hash2xy(index, dim), dim) = index     *)
(* with both coordinates in range.                                         *)
(***************************************************************************)
C1_Bijection ==
    /\ (op = "_xy2hash" /\ args.x < args.dim /\ args.y < args.dim) =>
           /\ 0 <= result.value
           /\ result.value < args.dim * args.dim
           /\ hash2xy(result.value, args.dim) =
                  [status |-> "ok", xy |-> << args.x, args.y >>]
    /\ (op = "_hash2xy" /\ args.hashcode < args.dim * args.dim) =>
           /\ result.status = "ok"
           /\ 0 <= result.xy[1] /\ result.xy[1] < args.dim
           /\ 0 <= result.xy[2] /\ result.xy[2] < args.dim
           /\ xy2hash(result.xy[1], result.xy[2], args.dim) = args.hashcode

C1_Witness ==
    /\ op = "_xy2hash"
    /\ args = [x |-> 5, y |-> 3, dim |-> 8]
    /\ hash2xy(result.value, 8).xy = << 5, 3 >>

(***************************************************************************)
(* C2: for all valid coordinates (both ends of the intervals included),    *)
(* every precision >= 0 and bits_per_char in {2, 4, 6},                    *)
(* decode(encode(lng, lat, precision, b), b) differs from (lng, lat) by at *)
(* most (180 / 2^level, 90 / 2^level), level = precision * b div 2.        *)
(***************************************************************************)
C2_RoundTripWithinError ==
    EncodeOk =>
        LET d     == decode(result.code, args.bits_per_char)
            level == LevelOf(args.precision, args.bits_per_char)
        IN  /\ d.status = "ok"
            /\ Abs(d.value[1] - args.lng) * (2 ^ level) <= 180 * Scale
            /\ Abs(d.value[2] - args.lat) * (2 ^ level) <= 90 * Scale

(***************************************************************************)
(* C3: for every input that passes encode's asserts, encode returns a      *)
(* string of exactly precision characters: the curve index is below        *)
(* 2^(precision * bits_per_char), so the shortest codec output is at most  *)
(* precision characters long and the padding brings it to that length.     *)
(***************************************************************************)
C3_CodeLength ==
    EncodeOk =>
        /\ Len(result.code) = args.precision
        /\ 0 <= EncodeIndex
        /\ EncodeIndex < 2 ^ (args.precision * args.bits_per_char)
        /\ Len(encode_int(EncodeIndex, args.bits_per_char)) <= args.precision

C3_Witness ==
    /\ EncodeOk
    /\ args.precision = 2 /\ args.bits_per_char = 6
    /\ args.lng = Deg(180) /\ args.lat = Deg(45)
    /\ Len(result.code) = 2

(***************************************************************************)
(* C4: encode raises and returns no code, before any quantisation or curve *)
(* computation, whenever lng or lat is outside its interval, precision < 0 *)
(* or bits_per_char is not 2, 4 or 6; decode and decode_exactly raise      *)
(* without a result whenever bits_per_char is not 2, 4 or 6.               *)
(***************************************************************************)
C4_EagerValidation ==
    /\ ( /\ op = "encode"
         /\ \/ args.lng < Deg(-180) \/ args.lng > Deg(180)
            \/ args.lat < Deg(-90) \/ args.lat > Deg(90)
            \/ args.precision < 0
            \/ args.bits_per_char \notin {2, 4, 6} ) =>
           /\ result.status = "AssertionError"
           /\ result.calls = << >>
           /\ "code" \notin DOMAIN result
    /\ (op \in {"decode", "decode_exactly"} /\ args.bits_per_char \notin {2, 4, 6}) =>
           /\ result.status = "AssertionError"
           /\ result.calls = << >>
           /\ "value" \notin DOMAIN result

C4_Witness ==
    /\ op = "encode"
    /\ args.lat = Deg(91) /\ args.lng = Deg(0)
    /\ args.precision = 2 /\ args.bits_per_char = 6
    /\ result.status = "AssertionError"

(***************************************************************************)
(* C5: called directly, _xy2hash raises whenever x >= dim or y >= dim, and *)
(* _hash2xy raises whenever the index is >= dim^2.                         *)
(***************************************************************************)
C5_TransformValidates ==
    /\ (op = "_xy2hash" /\ (args.x >= args.dim \/ args.y >= args.dim)) =>
           result.status = "AssertionError"
    /\ (op = "_hash2xy" /\ args.hashcode >= args.dim * args.dim) =>
           result.status = "AssertionError"

(***************************************************************************)
(* C6: for a code of n characters, level = n * bits_per_char div 2,        *)
(* dim = 2^level and (x, y) = _hash2xy(decode_int(code), dim),             *)
(* decode_exactly returns lng_err = 180 / dim, lat_err = 90 / dim,         *)
(* lng = x * 360 / dim - 180 + lng_err and lat = y * 180 / dim - 90 +      *)
(* lat_err, the centre of the cell; decode returns the first two of them.  *)
(***************************************************************************)
C6_DecodeCentre ==
    (op \in {"decode", "decode_exactly"} /\ args.bits_per_char \in {2, 4, 6}) =>
        LET dim == 2 ^ LevelOf(Len(args.code), args.bits_per_char)
            xy  == hash2xy_loop(decode_int(args.code, args.bits_per_char), dim, 1, 0, 0)
        IN  /\ result.status = "ok"
            /\ Len(result.value) = IF op = "decode" THEN 2 ELSE 4
            /\ result.value[1] * dim = (xy[1] * 360 - 180 * dim + 180) * Scale
            /\ result.value[2] * dim = (xy[2] * 180 - 90 * dim + 90) * Scale
            /\ op = "decode_exactly" =>
                   /\ result.value[3] * dim = 180 * Scale
                   /\ result.value[4] * dim = 90 * Scale

C6_Witness ==
    /\ op = "decode_exactly"
    /\ args = [code |-> << 1, 0 >>, bits_per_char |-> 2]
    /\ result.value = << Deg(-135), Deg(45) \div 2, Deg(45), Deg(45) \div 2 >>

(***************************************************************************)
(* C7: the curve is continuous: for dim >= 2 and 0 <= i < dim^2 - 1 the    *)
(* cells _hash2xy(i, dim) and _hash2xy(i + 1, dim) differ by exactly 1 in  *)
(* exactly one of x, y and are equal in the other.                         *)
(***************************************************************************)
C7_Continuous ==
    (op = "_hash2xy" /\ args.dim >= 2 /\ args.hashcode < args.dim * args.dim - 1) =>
        LET a == result.xy
            b == hash2xy(args.hashcode + 1, args.dim).xy
        IN  \/ Abs(a[1] - b[1]) = 1 /\ a[2] = b[2]
            \/ Abs(a[2] - b[2]) = 1 /\ a[1] = b[1]

C7_Witness ==
    /\ op = "_hash2xy"
    /\ args = [hashcode |-> 31, dim |-> 8]
    /\ result.xy = << 3, 4 >>
    /\ hash2xy(32, 8).xy = << 4, 4 >>

C9_PrefixNesting ==
    /\ ( /\ EncodeOk
         /\ args.lng < Deg(180) /\ args.lat < Deg(90)
         /\ LevelOf(args.precision + 1, args.bits_per_char) <= MaxLevel ) =>
           LET longer == encode(args.lng, args.lat, args.precision + 1, args.bits_per_char)
           IN  /\ longer.status = "ok"
               /\ result.code = SubSeq(longer.code, 1, args.precision)
    /\ ( /\ op = "_xy2hash"
         /\ args.dim >= 2 /\ args.x < args.dim /\ args.y < args.dim ) =>
           xy2hash(args.x \div 2, args.y \div 2, args.dim \div 2) = result.value \div 4

C9_Witness ==
    /\ EncodeOk
    /\ args = [lng |-> Deg(45) + 1, lat |-> Deg(-45) - 1, precision |-> 1,
               bits_per_char |-> 6]
    /\ Len(result.code) = 1
    /\ encode(args.lng, args.lat, 2, 6).code[1] = result.code[1]

====
